---- MODULE Spec2Model ----
(***************************************************************************)
(* A model of task_runner.js, the script that replays the nodeunit         *)
(* Makefile: the bundle assembler buildAndClean (concatenate the parts,    *)
(* strip the markers, write the file), the task functions that call it,    *)
(* exec, and the command switch.                                           *)
(*                                                                         *)
(* Text is a TLA+ string; a character is a string of length one.           *)
(***************************************************************************)
EXTENDS Integers, Sequences, FiniteSets, TLC

VARIABLES
    fs,            \* the files: path |-> [exists, data]
    dirs,          \* the directories that exist
    targetFile,    \* buildAndClean's first argument
    parts,         \* buildAndClean's second argument
    replacements,  \* buildAndClean's third argument
    content,       \* buildAndClean's local: the buffer after the forEach over parts
    ret,           \* what the last call of buildAndClean returned
    asm,           \* the call's position: "ready", "returned", "threw"
    outputs,       \* what each call that wrote left in its target, in order
    userArgs,      \* process.argv.slice(2)
    pc,            \* where the script is: "start", a step of a task, "exited"
    exitCode,      \* the process's exit status, StillRunning before it exits
    trace,         \* what the run did so far, in order: commands, steps, output
    scriptIndex,   \* runBrowser: the index of testScripts.forEach
    minified,      \* runBrowser: how the minification step went
    utilFailed,    \* the commands whose utility returned non-zero, in order
    fs0,           \* the files when the process started
    dirs0          \* the directories when the process started

callVars == <<targetFile, parts, replacements, content, ret, asm, outputs>>
runVars == <<userArgs, pc, exitCode, trace, scriptIndex, minified, utilFailed,
            fs0, dirs0>>
vars == <<fs, dirs, targetFile, parts, replacements, content, ret, asm, outputs,
          userArgs, pc, exitCode, trace, scriptIndex, minified, utilFailed,
          fs0, dirs0>>

\* ---------------------------------------------------------------- bounds

\* The longest plan (sequence of parts) the assembler is called with.
MaxParts == 2
\* The longest list of markers the assembler is called with.
MaxMarkers == 2
\* The most calls of the assembler on one plan.
MaxCalls == 2

\* ------------------------------------------------------------ text helpers

\* The character of s at position i (1-based).
CharAt(s, i) == SubSeq(s, i, i)

\* The least and the greatest member of a non-empty set of integers.
Min(S) == CHOOSE i \in S : \A j \in S : i <= j
Max(S) == CHOOSE i \in S : \A j \in S : j <= i

\* The directory part of a relative path: everything before its last "/".
Dirname(p) ==
    LET slashes == { i \in 1..Len(p) : CharAt(p, i) = "/" }
    IN  IF slashes = {} THEN "." ELSE SubSeq(p, 1, Max(slashes) - 1)

\* A file that is not there, and a file holding d.
NoFile == [exists |-> FALSE, data |-> ""]
File(d) == [exists |-> TRUE, data |-> d]

\* The exit status of a process that has not exited.
StillRunning == -1

\* A JavaScript value a function returns: undefined, or a string.
Undefined == [defined |-> FALSE, value |-> ""]
Str(s) == [defined |-> TRUE, value |-> s]

\* --------------------------------------------------------- buildAndClean

\* One part of a plan.  A property the object does not have reads as
\* undefined, which is as falsy as "": both are "" here.
PathPart(p) == [path |-> p, content |-> ""]
ContentPart(c) == [path |-> "", content |-> c]

\* fs.readFileSync(part.path, 'utf8') throws when the file is not there.
PartThrows(f, part) == part.path # "" /\ ~f[part.path].exists

\* What one round of the forEach appends before the newline.
PartTextTrimmedMutant(f, part) ==
    LET t == IF part.path # "" THEN f[part.path].data ELSE part.content
    IN  IF t # "" /\ CharAt(t, Len(t)) = "\n" THEN SubSeq(t, 1, Len(t) - 1) ELSE t
PartText(f, part) ==
    IF part.path # "" THEN f[part.path].data
    ELSE IF part.content # "" THEN part.content
    ELSE ""

\* The buffer after the forEach over ps: each round appends the part's text
\* and a newline.  (Split in halves to keep the evaluation shallow.)
RECURSIVE Concatenate(_, _)
Concatenate(f, ps) ==
    IF ps = <<>> THEN ""
    ELSE IF Len(ps) = 1 THEN PartText(f, ps[1]) \o "\n"
    ELSE LET h == Len(ps) \div 2
         IN  Concatenate(f, SubSeq(ps, 1, h)) \o Concatenate(f, SubSeq(ps, h + 1, Len(ps)))

\* The characters of the class [-\/\\^$*+?.()|[\]{}].
RegExpSpecialsNoDotMutant ==
    {"-", "/", "\\", "^", "$", "*", "+", "?", "(", ")", "|", "[", "]", "{", "}"}
RegExpSpecials ==
    {"-", "/", "\\", "^", "$", "*", "+", "?", ".", "(", ")", "|", "[", "]", "{", "}"}

\* line.replace(/[-\/\\^$*+?.()|[\]{}]/g, '\\$&'): a backslash before each
\* character of the class.
RECURSIVE EscapeRegExp(_)
EscapeRegExp(line) ==
    IF line = "" THEN ""
    ELSE IF Len(line) = 1
    THEN (IF line \in RegExpSpecials THEN "\\" \o line ELSE line)
    ELSE LET h == Len(line) \div 2
         IN  EscapeRegExp(SubSeq(line, 1, h)) \o EscapeRegExp(SubSeq(line, h + 1, Len(line)))

\* new RegExp(src, 'g'), for the sources EscapeRegExp can produce with or
\* without "." in the class: a sequence of atoms, each matching one
\* character.  "\c" is the character c, an unescaped "." is any character but
\* a line terminator, any other character is itself.
RegExpCompile(src) ==
    LET \* the backslashes that stand right before position i
        run(i) == Max({ r \in 0..(i - 1) :
                          \A k \in (i - r)..(i - 1) : CharAt(src, k) = "\\" })
        \* the positions an atom starts at: those no backslash escapes
        starts == { i \in 1..Len(src) : run(i) % 2 = 0 }
        atom(i) ==
            LET c == CharAt(src, i)
            IN  IF c = "\\" /\ i < Len(src)
                THEN [any |-> FALSE, ch |-> CharAt(src, i + 1)]
                ELSE IF c = "." THEN [any |-> TRUE, ch |-> ""]
                ELSE [any |-> FALSE, ch |-> c]
        nth(k) == CHOOSE i \in starts :
                      Cardinality({ j \in starts : j < i }) = k - 1
    IN  [k \in 1..Cardinality(starts) |-> atom(nth(k))]

AtomMatches(atom, c) ==
    IF atom.any THEN c \notin {"\n", "\r"} ELSE c = atom.ch

\* The regular expression matches s at position i.
MatchesAt(re, s, i) ==
    /\ i + Len(re) - 1 <= Len(s)
    /\ \A k \in 1..Len(re) : AtomMatches(re[k], CharAt(s, i + k - 1))

\* s.replace(re, '') with the g flag: scan from the left, drop each match and
\* go on after it.  The empty expression matches the empty string everywhere
\* and replacing that by '' changes nothing.
RECURSIVE ReplaceAll(_, _, _)
ReplaceAll(re, s, i) ==
    IF re = <<>> THEN s
    ELSE LET next == { j \in i..Len(s) : MatchesAt(re, s, j) }
         IN  IF next = {} THEN SubSeq(s, i, Len(s))
             ELSE SubSeq(s, i, Min(next) - 1)
                      \o ReplaceAll(re, s, Min(next) + Len(re))

\* One round of replacements.forEach.
RemoveMarker(buf, line) == ReplaceAll(RegExpCompile(EscapeRegExp(line)), buf, 1)

\* The buffer after replacements.forEach.
RECURSIVE RemoveMarkers(_, _)
RemoveMarkers(buf, lines) ==
    IF lines = <<>> THEN buf
    ELSE RemoveMarkers(RemoveMarker(buf, Head(lines)), Tail(lines))

\* buildAndClean has no return statement.
BuildAndCleanReturnsBufferMutant(written) == Str(written)
BuildAndCleanReturn(written) == Undefined

\* fs.writeFileSync(targetFile, content, 'utf8') opens the file with flag
\* 'w': it throws ENOENT when the directory of the path is not there.
WriteThrowsNeverMutant(d, target) == FALSE
WriteThrows(d, target) == Dirname(target) \notin d

\* The files after fs.writeFileSync(targetFile, content, 'utf8') went
\* through: flag 'w' creates the file or truncates the one that is there.
WriteFileSyncAppendMutant(f, target, data) ==
    [f EXCEPT ![target] = File(f[target].data \o data)]
WriteFileSync(f, target, data) == [f EXCEPT ![target] = File(data)]

\* buildAndClean(target, ps, reps), the whole call.
BuildAndCleanCall(target, ps, reps) ==
    /\ targetFile' = target
    /\ parts' = ps
    /\ replacements' = reps
    /\ IF \E i \in 1..Len(ps) : PartThrows(fs, ps[i])
       THEN \* readFileSync throws out of the forEach: nothing is written
            LET k == Min({ i \in 1..Len(ps) : PartThrows(fs, ps[i]) })
            IN  /\ content' = Concatenate(fs, SubSeq(ps, 1, k - 1))
                /\ asm' = "threw"
                /\ UNCHANGED <<fs, ret, outputs>>
       ELSE LET buf == Concatenate(fs, ps)
                out == RemoveMarkers(buf, reps)
            IN  /\ content' = buf
                /\ IF WriteThrows(dirs, target)
                   THEN /\ asm' = "threw"
                        /\ UNCHANGED <<fs, ret, outputs>>
                   ELSE /\ fs' = WriteFileSync(fs, target, out)
                        /\ ret' = BuildAndCleanReturn(out)
                        /\ asm' = "returned"
                        /\ outputs' = Append(outputs, fs'[target].data)

\* A call of buildAndClean with the arguments the state holds.
BuildAndClean ==
    /\ asm = "ready"
    /\ BuildAndCleanCall(targetFile, parts, replacements)
    /\ UNCHANGED <<dirs, runVars>>

\* ------------------------------------------- the assembler on its own

MarkerBrowser == "@REMOVE_LINE_FOR_BROWSER"
MarkerCommonJS == "@REMOVE_LINE_FOR_COMMONJS"

\* The files a plan of the assembler's own specification can name.
AsmSource == "lib/core.js"
AsmGone == "lib/gone.js"
AsmTargets == {"dist/browser/nodeunit.js", "dist/commonjs/nodeunit.js"}
AsmPaths == {AsmSource, AsmGone} \cup AsmTargets

\* What AsmSource can hold.
AsmSourceText == "var a; // @REMOVE_LINE_FOR_BROWSER\n@REMOVE_LINE\n"

\* The parts plans are made of.
AsmParts ==
    { ContentPart(""), ContentPart("a"), ContentPart("b"), ContentPart("aba."),
      ContentPart("@REMOVE_@REMOVE_LINE_FOR_BROWSERLINE_FOR_BROWSER"),
      ContentPart("@REMOVE_LINE_@REMOVE_LINE_FOR_COMMONJSFOR_BROWSER"),
      PathPart(AsmSource), PathPart(AsmGone) }

\* The markers marker lists are made of.
AsmMarkers == {"a", "a.", MarkerBrowser, MarkerCommonJS}

SeqsUpTo(S, n) == UNION { [1..k -> S] : k \in 0..n }

InitAsm ==
    /\ \E old \in {NoFile, File("stale")} :
          fs = [p \in AsmPaths |->
                  IF p = AsmSource THEN File(AsmSourceText)
                  ELSE IF p = "dist/browser/nodeunit.js" THEN old
                  ELSE NoFile]
    /\ dirs = {"dist/browser"}
    /\ targetFile \in AsmTargets
    /\ parts \in SeqsUpTo(AsmParts, MaxParts)
    /\ replacements \in SeqsUpTo(AsmMarkers, MaxMarkers)
    /\ content = ""
    /\ ret = Undefined
    /\ asm = "ready"
    /\ outputs = <<>>
    /\ userArgs = <<>>
    /\ pc = "buildAndClean"
    /\ exitCode = StillRunning
    /\ trace = <<>>
    /\ scriptIndex = 0
    /\ minified = "none"
    /\ utilFailed = <<>>
    /\ fs0 = fs
    /\ dirs0 = dirs

NextAsm == BuildAndClean

SpecAsm == InitAsm /\ [][NextAsm]_vars

\* ------------------------------------- the assembler, called repeatedly

\* One more call of buildAndClean on the same plan, after a call that
\* returned: the target now holds what that call wrote.
BuildAndCleanAgain ==
    /\ asm = "returned"
    /\ Len(outputs) < MaxCalls
    /\ BuildAndCleanCall(targetFile, parts, replacements)
    /\ UNCHANGED <<dirs, runVars>>

\* The parts the plans of repeated calls are made of.
AgainParts ==
    { ContentPart("b"), ContentPart("aba."),
      ContentPart("@REMOVE_@REMOVE_LINE_FOR_BROWSERLINE_FOR_BROWSER"),
      PathPart(AsmSource) }

InitAgain ==
    /\ InitAsm
    /\ \A i \in 1..Len(parts) : parts[i] \in AgainParts

NextAgain ==
    \/ BuildAndClean
    \/ BuildAndCleanAgain

SpecAgain == InitAgain /\ [][NextAgain]_vars

\* ------------------------------------------ claims about the assembler

\* The text of a part as the plan states it: the file's contents for a file
\* part, the literal for a literal part.
TextOf(part) == IF part.path # "" THEN fs[part.path].data ELSE part.content

\* Where the text of part i starts in the concatenation, less one.
RECURSIVE OffsetOf(_, _)
OffsetOf(ps, i) ==
    IF i <= 1 THEN 0 ELSE OffsetOf(ps, i - 1) + Len(TextOf(ps[i - 1])) + 1

\* s occurs in buf as a substring.
Contains(buf, s) ==
    \E i \in 1..(Len(buf) - Len(s) + 1) : SubSeq(buf, i, i + Len(s) - 1) = s

\* C1: with no markers, the file written holds the text of each part in plan
\* order, each followed by exactly one newline, and nothing else.
C1_ConcatenationInOrder ==
    (asm = "returned" /\ replacements = <<>>) =>
        LET out == fs[targetFile].data
        IN  /\ Len(out) = OffsetOf(parts, Len(parts) + 1)
            /\ \A i \in 1..Len(parts) :
                  LET t == TextOf(parts[i])
                      o == OffsetOf(parts, i)
                  IN  /\ SubSeq(out, o + 1, o + Len(t)) = t
                      /\ CharAt(out, o + Len(t) + 1) = "\n"

\* C1's case: a two-part plan with an empty text and a text that already ends
\* in a newline has been assembled with no markers.
C1_Witness ==
    /\ asm = "returned"
    /\ replacements = <<>>
    /\ parts = <<ContentPart(""), PathPart(AsmSource)>>
    /\ fs[targetFile].data = "\n" \o AsmSourceText \o "\n"

\* C2: the file written contains no marker of the plan as a substring.
C2_NoMarkerLeft ==
    asm = "returned" =>
        \A k \in 1..Len(replacements) :
            ~Contains(fs[targetFile].data, replacements[k])

\* The starts of the occurrences of m in buf.
Occurrences(buf, m) ==
    { i \in 1..(Len(buf) - Len(m) + 1) : SubSeq(buf, i, i + Len(m) - 1) = m }

\* buf without the n characters at each start in S.
RECURSIVE DeleteAt(_, _, _, _)
DeleteAt(buf, S, n, i) ==
    LET next == { j \in S : j >= i }
    IN  IF next = {} THEN SubSeq(buf, i, Len(buf))
        ELSE SubSeq(buf, i, Min(next) - 1) \o DeleteAt(buf, S, n, Min(next) + n)

\* Every text that is buf with some whole, pairwise disjoint occurrences of m
\* deleted and every other character kept in order.
WholeDeletions(buf, m) ==
    { DeleteAt(buf, S, Len(m), 1) :
        S \in { T \in SUBSET Occurrences(buf, m) :
                  \A i, j \in T : i < j => i + Len(m) <= j } }

\* The same for a list of markers, taken in order.
RECURSIVE WholeDeletionsOfAll(_, _)
WholeDeletionsOfAll(bufs, ms) ==
    IF ms = <<>> THEN bufs
    ELSE WholeDeletionsOfAll(UNION { WholeDeletions(b, Head(ms)) : b \in bufs },
                             Tail(ms))

\* C3: the file written is the concatenation with only whole literal
\* occurrences of markers deleted, and is the concatenation itself when no
\* marker occurs in it.
C3_RemovalIsLiteral ==
    asm = "returned" =>
        LET out == fs[targetFile].data
        IN  /\ out \in WholeDeletionsOfAll({content}, replacements)
            /\ (\A k \in 1..Len(replacements) : ~Contains(content, replacements[k]))
                  => out = content

\* C3's case: the marker "a." has been removed from a buffer that holds both
\* "a." and "ab", which the pattern a. would match were the dot not escaped.
C3_Witness ==
    /\ asm = "returned"
    /\ replacements = <<"a.">>
    /\ parts = <<ContentPart("aba.")>>
    /\ fs[targetFile].data = "ab\n"

\* C4: removing the two markers of a plan in the other order writes the same
\* file.
C4_OrderIrrelevant ==
    (asm = "returned" /\ Len(replacements) = 2) =>
        fs[targetFile].data =
            RemoveMarkers(content, <<replacements[2], replacements[1]>>)

\* C10 as stated: the call returns the bytes it wrote.
C10_ReturnsWrittenBytes ==
    asm = "returned" => ret = Str(fs[targetFile].data)

\* C10 as amended: the call returns undefined; the bytes it wrote are in the
\* destination file and nowhere else.
C10_ReturnsUndefined ==
    asm = "returned" => (ret = Undefined /\ fs[targetFile].exists)

\* C10's case: a call that wrote a non-empty file has returned.
C10_Witness ==
    /\ asm = "returned"
    /\ parts = <<ContentPart("a"), ContentPart("b")>>
    /\ fs[targetFile] = File("a\nb\n")

\* Every part of the plan can be read.
AllPartsReadable == ~ \E i \in 1..Len(parts) : PartThrows(fs0, parts[i])

\* C11 as stated: whether or not the directory of the target is there and
\* whether or not the target is, a call whose parts can all be read returns
\* with the target holding exactly the new buffer, and changes no other file.
C11_WriteCreatesParents ==
    (asm # "ready" /\ AllPartsReadable) =>
        /\ asm = "returned"
        /\ fs[targetFile] = File(RemoveMarkers(content, replacements))
        /\ \A p \in DOMAIN fs \ {targetFile} : fs[p] = fs0[p]

\* C11, amended: the write overwrites but creates no directory. After the
\* call no file but the target differs from before and no directory was made;
\* with the directory of the target there and every part readable the call
\* returns and the target, new or overwritten, holds exactly the new buffer;
\* with the directory missing the call throws and no file is changed.
C11_WriteOverwritesInExistingDirectory ==
    asm # "ready" =>
        /\ \A p \in DOMAIN fs \ {targetFile} : fs[p] = fs0[p]
        /\ dirs = dirs0
        /\ asm = "returned" =>
              fs[targetFile] = File(RemoveMarkers(content, replacements))
        /\ (AllPartsReadable /\ Dirname(targetFile) \in dirs0) => asm = "returned"
        /\ Dirname(targetFile) \notin dirs0 => (asm = "threw" /\ fs = fs0)

\* A call that overwrote the file an earlier build left at the target.
C11_Witness ==
    /\ asm = "returned"
    /\ fs0[targetFile] = File("stale")
    /\ parts = <<ContentPart("b"), PathPart(AsmSource)>>
    /\ replacements = <<MarkerBrowser>>
    /\ fs[targetFile] = File("b\nvar a; // \n@REMOVE_LINE\n\n")

\* C12: the bytes a call leaves in the target depend on the contents of the
\* fragment files, the literal texts and the marker list only: every call on
\* the plan, the first and the one after it, leaves the same bytes, whatever
\* the target held when the call began (nothing, the file of an earlier
\* build, the output of the call before).
C12_Deterministic ==
    \A i \in 1..Len(outputs) :
        /\ outputs[i] = RemoveMarkers(Concatenate(fs0, parts), replacements)
        /\ outputs[i] = outputs[1]

\* Two calls on one plan, the first over the file of an earlier build, the
\* second over the output of the first.
C12_Witness ==
    /\ Len(outputs) = 2
    /\ fs0[targetFile] = File("stale")
    /\ parts = <<PathPart(AsmSource), ContentPart("aba.")>>
    /\ replacements = <<"a.", MarkerBrowser>>
    /\ outputs[2] = "var a; // \n@REMOVE_LINE\n\nab\n"
    /\ fs[targetFile] = File(outputs[2])

\* ------------------------------------------------------- the script

BUILDDIR == "dist"
PREFIX == "/usr/local"
BINDIR == PREFIX \o "/bin"
MANDIR == PREFIX \o "/share/man"
LIBDIR == PREFIX \o "/lib"
PACKAGE == "nodeunit"

\* path.join of a directory and a relative path.
Join(a, b) == a \o "/" \o b

\* arg.startsWith(pre)
StartsWith(s, pre) == Len(s) >= Len(pre) /\ SubSeq(s, 1, Len(pre)) = pre

\* s.toLowerCase(), for ASCII.
UpperCase == "ABCDEFGHIJKLMNOPQRSTUVWXYZ"
LowerCase == "abcdefghijklmnopqrstuvwxyz"
RECURSIVE ToLowerCase(_)
ToLowerCase(s) ==
    IF s = "" THEN ""
    ELSE IF Len(s) = 1
    THEN LET at == { i \in 1..Len(UpperCase) : CharAt(UpperCase, i) = s }
         IN  IF at = {} THEN s ELSE CharAt(LowerCase, Min(at))
    ELSE LET h == Len(s) \div 2
         IN  ToLowerCase(SubSeq(s, 1, h)) \o ToLowerCase(SubSeq(s, h + 1, Len(s)))

\* array.includes(x)
Includes(array, x) == \E i \in 1..Len(array) : array[i] = x

\* The first argument that does not start with a hyphen, lower-cased; '' when
\* there is none.
PrimaryCommand(args) ==
    LET found == { i \in 1..Len(args) : ~StartsWith(args[i], "-") }
    IN  IF found = {} THEN "" ELSE ToLowerCase(args[Min(found)])
primaryCommand == PrimaryCommand(userArgs)

\* The arguments that start with a hyphen.
Options(args) == SelectSeq(args, LAMBDA a : StartsWith(a, "-"))
options == Options(userArgs)

\* The commands the switch has a case for.
Commands ==
    {"all", "build", "browser", "commonjs", "test", "clean", "lint", "doc",
     "install", "uninstall"}

testScripts ==
    <<"test-base.js", "test-runmodule.js", "test-runtest.js", "test-testcase.js",
      "test-testcase-legacy.js">>

browserDir == Join(BUILDDIR, "browser")
testDir == Join(browserDir, "test")
commonjsDir == Join(BUILDDIR, "commonjs")
nodejsLibDir == LIBDIR \o "/node"
ManPage == "man1/nodeunit.1"

\* The files of the working directory the tasks read.
SourceFiles ==
    {"share/license.js", "deps/json2.js", "deps/async.js", "lib/assert.js",
     "lib/types.js", "lib/core.js", "lib/reporters/browser.js",
     "share/nodeunit.css", "test/test.html", ManPage}
        \cup { "test/" \o testScripts[i] : i \in 1..Len(testScripts) }

\* What the tasks write.  The tree cp copies is stood for by its index.js.
BuildFiles == {"stamp-build", "dist/nodeunit.sh", "dist/nodeunit/index.js"}
BrowserFiles ==
    { Join(browserDir, "nodeunit.js"), Join(browserDir, "nodeunit.min.js"),
      Join(browserDir, "nodeunit.css"), Join(testDir, "test.html"),
      Join(testDir, "nodeunit.js"), Join(testDir, "nodeunit.css") }
        \cup { Join(testDir, testScripts[i]) : i \in 1..Len(testScripts) }
CommonJSFiles ==
    { Join(commonjsDir, "nodeunit.js"), Join(commonjsDir, "deps/json2.js"),
      Join(commonjsDir, "deps/async.js") }
InstalledFiles ==
    { nodejsLibDir \o "/nodeunit/index.js", BINDIR \o "/nodeunit",
      MANDIR \o "/man1/nodeunit.1" }
AllFiles == SourceFiles \cup BuildFiles \cup BrowserFiles \cup CommonJSFiles
                \cup InstalledFiles

\* What a source file holds.
SourceText(p) == IF p = AsmSource THEN AsmSourceText ELSE "// " \o p

\* p lies under directory d.
Under(p, d) == Len(p) > Len(d) /\ SubSeq(p, 1, Len(d) + 1) = d \o "/"

\* fs.rmSync(d, { recursive: true, force: true })
RmFilesKeepsMutant(f, d) == f
RmFiles(f, d) == [p \in DOMAIN f |-> IF Under(p, d) THEN NoFile ELSE f[p]]
RmDirs(ds, d) == { x \in ds : x # d /\ ~Under(x, d) }

\* fs.mkdirSync(d, { recursive: true }): d and the directories above it.
MkdirRecursive(ds, d) ==
    ds \cup {d} \cup { SubSeq(d, 1, i - 1) : i \in { j \in 2..Len(d) : CharAt(d, j) = "/" } }

\* The script leaves the step it is at.
Goto(label) == pc' = label /\ exitCode' = exitCode
Exit(code) == pc' = "exited" /\ exitCode' = code

\* An exception nothing catches: node prints it and exits with status 1.
UncaughtStatusZeroMutant == Exit(0)
Uncaught == Exit(1)

Log(events) == trace' = trace \o events

\* exec's catch block: report, then process.exit(1).
ExecCatchContinuesMutant(next) == Goto(next)
ExecCatch(next) == Exit(1)

\* exec(command, taskName), where ok says whether execSync returned (the
\* command's status was zero) or threw.
Exec(command, ok, next) ==
    IF ok
    THEN /\ Log(<<"exec " \o command>>)
         /\ Goto(next)
    ELSE /\ Log(<<"exec " \o command, "ERROR: Command failed.">>)
         /\ ExecCatch(next)

\* The status of the shell command "utility ... || true", as a success flag.
OrTrue(utilityOk) == TRUE

\* showHelp(showVerbose): the command list, and the flag list when verbose.
ShowHelp(showVerbose) == IF showVerbose THEN <<"help", "flags">> ELSE <<"help">>

\* The first step of the task the switch runs for a command.
FirstStepInstallSkipsBuildMutant(command) ==
    CASE command \in {"all", "build"} -> "runBuild"
      [] command = "install" -> "runInstall.1"
      [] command = "browser" -> "runBrowser"
      [] command = "commonjs" -> "runCommonJS"
      [] command = "test" -> "runTest"
      [] command = "clean" -> "runClean"
      [] command = "lint" -> "runLint"
      [] command = "doc" -> "runDoc"
      [] command = "uninstall" -> "runUninstall"
FirstStep(command) ==
    CASE command \in {"all", "build", "install"} -> "runBuild"
      [] command = "browser" -> "runBrowser"
      [] command = "commonjs" -> "runCommonJS"
      [] command = "test" -> "runTest"
      [] command = "clean" -> "runClean"
      [] command = "lint" -> "runLint"
      [] command = "doc" -> "runDoc"
      [] command = "uninstall" -> "runUninstall"

\* The command switch with the command looked at before the help flags.
CommandSwitchCommandFirstMutant ==
    /\ pc = "start"
    /\ IF primaryCommand \in Commands
       THEN Log(<<>>) /\ Goto(FirstStep(primaryCommand))
       ELSE IF Includes(options, "-h") \/ Includes(options, "--help")
       THEN Log(ShowHelp(FALSE)) /\ Goto("end")
       ELSE IF Includes(options, "-hh")
       THEN Log(ShowHelp(TRUE)) /\ Goto("end")
       ELSE IF primaryCommand = ""
       THEN Log(<<"ERROR: No command provided.">> \o ShowHelp(FALSE)) /\ Goto("end")
       ELSE Log(<<"ERROR: Unknown command">> \o ShowHelp(FALSE)) /\ Goto("end")
    /\ UNCHANGED <<fs, dirs, callVars, userArgs, fs0, dirs0, scriptIndex, minified, utilFailed>>

\* The command switch.
CommandSwitch ==
    /\ pc = "start"
    /\ IF Includes(options, "-h") \/ Includes(options, "--help")
       THEN Log(ShowHelp(FALSE)) /\ Goto("end")
       ELSE IF Includes(options, "-hh")
       THEN Log(ShowHelp(TRUE)) /\ Goto("end")
       ELSE IF primaryCommand = ""
       THEN Log(<<"ERROR: No command provided.">> \o ShowHelp(FALSE)) /\ Goto("end")
       ELSE IF primaryCommand \in Commands
       THEN Log(<<>>) /\ Goto(FirstStep(primaryCommand))
       ELSE Log(<<"ERROR: Unknown command">> \o ShowHelp(FALSE)) /\ Goto("end")
    /\ UNCHANGED <<fs, dirs, callVars, userArgs, fs0, dirs0, scriptIndex, minified, utilFailed>>

\* runClean() without its second step, the removal of stamp-build.
RunCleanKeepsStampMutant ==
    /\ pc = "runClean"
    /\ fs' = IF BUILDDIR \in dirs THEN RmFiles(fs, BUILDDIR) ELSE fs
    /\ dirs' = IF BUILDDIR \in dirs THEN RmDirs(dirs, BUILDDIR) ELSE dirs
    /\ Log(<<"runClean">>)
    /\ Goto("end")
    /\ UNCHANGED <<callVars, userArgs, fs0, dirs0, scriptIndex, minified, utilFailed>>

\* runClean()
RunClean ==
    /\ pc = "runClean"
    /\ LET f1 == IF BUILDDIR \in dirs THEN RmFiles(fs, BUILDDIR) ELSE fs
       IN  fs' = IF f1["stamp-build"].exists
                 THEN [f1 EXCEPT !["stamp-build"] = NoFile] ELSE f1
    /\ dirs' = IF BUILDDIR \in dirs THEN RmDirs(dirs, BUILDDIR) ELSE dirs
    /\ Log(<<"runClean">>)
    /\ Goto("end")
    /\ UNCHANGED <<callVars, userArgs, fs0, dirs0, scriptIndex, minified, utilFailed>>

\* runBuild(), up to the copy: setupBuildDir, stamp-build, the module directory.
RunBuild ==
    /\ pc = "runBuild"
    /\ dirs' = MkdirRecursive(dirs \cup {BUILDDIR}, Join(BUILDDIR, PACKAGE))
    /\ fs' = [fs EXCEPT !["stamp-build"] = File("")]
    /\ Log(<<"write stamp-build", "mkdir " \o Join(BUILDDIR, PACKAGE)>>)
    /\ Goto("runBuild.cp")
    /\ UNCHANGED <<callVars, userArgs, fs0, dirs0, scriptIndex, minified, utilFailed>>

\* Where the script goes on after runBuild returns.
AfterBuild ==
    IF primaryCommand = "all" THEN "runDoc"
    ELSE IF primaryCommand = "install" THEN "runInstall.1"
    ELSE "end"

\* runBuild(): exec(`cp -R bin deps index.js lib package.json share ${targetDir}`)
RunBuildCopy ==
    /\ pc = "runBuild.cp"
    /\ \E ok \in BOOLEAN :
          LET command == "cp -R bin deps index.js lib package.json share "
                             \o Join(BUILDDIR, PACKAGE)
          IN  /\ Exec(command, ok, "runBuild.sh")
              /\ fs' = IF ok THEN [fs EXCEPT !["dist/nodeunit/index.js"] = File("// index.js")]
                       ELSE fs
              /\ utilFailed' = IF ok THEN utilFailed ELSE Append(utilFailed, command)
    /\ UNCHANGED <<dirs, callVars, userArgs, fs0, dirs0, scriptIndex, minified>>

\* runBuild(): the wrapper script, and the return to the caller.
RunBuildWrapper ==
    /\ pc = "runBuild.sh"
    /\ fs' = [fs EXCEPT ![BUILDDIR \o "/nodeunit.sh"] =
                 File("#!/bin/sh\nnode " \o nodejsLibDir \o "/" \o PACKAGE
                          \o "/bin/nodeunit $@")]
    /\ Log(<<"write " \o BUILDDIR \o "/nodeunit.sh">>)
    /\ Goto(AfterBuild)
    /\ UNCHANGED <<dirs, callVars, userArgs, fs0, dirs0, scriptIndex, minified, utilFailed>>

\* runDoc()
RunDoc ==
    /\ pc = "runDoc"
    /\ dirs' = MkdirRecursive(dirs, "man1")
    /\ Log(<<"runDoc">>)
    /\ Goto("end")
    /\ UNCHANGED <<fs, callVars, userArgs, fs0, dirs0, scriptIndex, minified, utilFailed>>

\* runLint()
RunLint ==
    /\ pc = "runLint"
    /\ Log(<<"runLint">>)
    /\ Goto("end")
    /\ UNCHANGED <<fs, dirs, callVars, userArgs, fs0, dirs0, scriptIndex, minified, utilFailed>>

\* runTest(): exec(`node ./bin/nodeunit test`)
RunTest ==
    /\ pc = "runTest"
    /\ \E ok \in BOOLEAN :
          LET command == "node ./bin/nodeunit test"
          IN  /\ Exec(command, ok, "end")
              /\ utilFailed' = IF ok THEN utilFailed ELSE Append(utilFailed, command)
    /\ UNCHANGED <<fs, dirs, callVars, userArgs, fs0, dirs0, scriptIndex, minified>>

\* runInstall(), after runBuild(): exec(`install -d ${nodejsLibDir}`)
RunInstallLibDir ==
    /\ pc = "runInstall.1"
    /\ \E ok \in BOOLEAN :
          LET command == "install -d " \o nodejsLibDir
          IN  /\ Exec(command, ok, "runInstall.2")
              /\ dirs' = IF ok THEN dirs \cup {nodejsLibDir} ELSE dirs
              /\ utilFailed' = IF ok THEN utilFailed ELSE Append(utilFailed, command)
    /\ UNCHANGED <<fs, callVars, userArgs, fs0, dirs0, scriptIndex, minified>>

\* runInstall(): exec(`cp -a ${BUILDDIR}/${PACKAGE} ${nodejsLibDir}`)
RunInstallCopy ==
    /\ pc = "runInstall.2"
    /\ \E ok \in BOOLEAN :
          LET command == "cp -a " \o BUILDDIR \o "/" \o PACKAGE \o " " \o nodejsLibDir
          IN  /\ Exec(command, ok, "runInstall.3")
              /\ fs' = IF ok THEN [fs EXCEPT ![nodejsLibDir \o "/nodeunit/index.js"] =
                                       fs["dist/nodeunit/index.js"]]
                       ELSE fs
              /\ utilFailed' = IF ok THEN utilFailed ELSE Append(utilFailed, command)
    /\ UNCHANGED <<dirs, callVars, userArgs, fs0, dirs0, scriptIndex, minified>>

\* runInstall(): exec(`install -m 0755 ${BUILDDIR}/nodeunit.sh ${BINDIR}/nodeunit`)
RunInstallWrapper ==
    /\ pc = "runInstall.3"
    /\ \E ok \in BOOLEAN :
          LET command == "install -m 0755 " \o BUILDDIR \o "/nodeunit.sh "
                             \o BINDIR \o "/nodeunit"
          IN  /\ Exec(command, ok, "runInstall.4")
              /\ fs' = IF ok THEN [fs EXCEPT ![BINDIR \o "/nodeunit"] = fs["dist/nodeunit.sh"]]
                       ELSE fs
              /\ utilFailed' = IF ok THEN utilFailed ELSE Append(utilFailed, command)
    /\ UNCHANGED <<dirs, callVars, userArgs, fs0, dirs0, scriptIndex, minified>>

\* runInstall(): exec(`install -d ${MANDIR}/man1/`)
RunInstallManDir ==
    /\ pc = "runInstall.4"
    /\ \E ok \in BOOLEAN :
          LET command == "install -d " \o MANDIR \o "/man1/"
          IN  /\ Exec(command, ok, "runInstall.5")
              /\ dirs' = IF ok THEN dirs \cup {MANDIR \o "/man1"} ELSE dirs
              /\ utilFailed' = IF ok THEN utilFailed ELSE Append(utilFailed, command)
    /\ UNCHANGED <<fs, callVars, userArgs, fs0, dirs0, scriptIndex, minified>>

ManPageCommand == "cp -a " \o ManPage \o " " \o MANDIR \o "/man1/ || true"

\* runInstall(): exec(`cp -a man1/nodeunit.1 ${MANDIR}/man1/ || true`).  cp
\* fails when the man page is not there (and may fail when it is); the
\* command line's status is zero either way.
RunInstallManPage ==
    /\ pc = "runInstall.5"
    /\ \E cpOk \in BOOLEAN :
          LET command == ManPageCommand
          IN  /\ cpOk => fs[ManPage].exists
              /\ Exec(command, OrTrue(cpOk), "end")
              /\ fs' = IF cpOk THEN [fs EXCEPT ![MANDIR \o "/man1/nodeunit.1"] = fs[ManPage]]
                       ELSE fs
              /\ utilFailed' = IF cpOk THEN utilFailed ELSE Append(utilFailed, command)
    /\ UNCHANGED <<dirs, callVars, userArgs, fs0, dirs0, scriptIndex, minified>>

\* runUninstall(): exec(`rm -rf ${nodejsLibDir}/nodeunit ${nodejsLibDir}/nodeunit.js ${BINDIR}/nodeunit`)
RunUninstall ==
    /\ pc = "runUninstall"
    /\ \E ok \in BOOLEAN :
          LET command == "rm -rf " \o nodejsLibDir \o "/nodeunit " \o nodejsLibDir
                             \o "/nodeunit.js " \o BINDIR \o "/nodeunit"
          IN  /\ Exec(command, ok, "runUninstall.2")
              /\ fs' = IF ok THEN [fs EXCEPT ![nodejsLibDir \o "/nodeunit/index.js"] = NoFile,
                                             ![BINDIR \o "/nodeunit"] = NoFile]
                       ELSE fs
              /\ utilFailed' = IF ok THEN utilFailed ELSE Append(utilFailed, command)
    /\ UNCHANGED <<dirs, callVars, userArgs, fs0, dirs0, scriptIndex, minified>>

\* runUninstall(): exec(`rm -rf ${MANDIR}/man1/nodeunit.1`)
RunUninstallManPage ==
    /\ pc = "runUninstall.2"
    /\ \E ok \in BOOLEAN :
          LET command == "rm -rf " \o MANDIR \o "/man1/nodeunit.1"
          IN  /\ Exec(command, ok, "end")
              /\ fs' = IF ok THEN [fs EXCEPT ![MANDIR \o "/man1/nodeunit.1"] = NoFile]
                       ELSE fs
              /\ utilFailed' = IF ok THEN utilFailed ELSE Append(utilFailed, command)
    /\ UNCHANGED <<dirs, callVars, userArgs, fs0, dirs0, scriptIndex, minified>>

\* The last statement has run: node exits with status 0.
EndOfScript ==
    /\ pc = "end"
    /\ Exit(0)
    /\ UNCHANGED <<fs, dirs, callVars, userArgs, fs0, dirs0, trace, scriptIndex, minified, utilFailed>>

\* fs.copyFileSync(src, dst) throws when src is not there.
CopyThrows(f, src) == ~f[src].exists
CopyFile(f, src, dst) == [f EXCEPT ![dst] = f[src]]

\* UglifyJS.minify(code).code: the minifier is an opaque collaborator.
Minify(code) == "/*min*/" \o code

\* runBrowser(): the parts of the browser bundle.
browserParts ==
    << PathPart("share/license.js"),
       ContentPart("nodeunit = (function(){"),
       PathPart("deps/json2.js"),
       ContentPart("var assert = this.assert = {};"),
       ContentPart("var types = {};"),
       ContentPart("var core = {};"),
       ContentPart("var nodeunit = {};"),
       ContentPart("var reporter = {};"),
       PathPart("deps/async.js"),
       ContentPart("(function(exports){"),
       PathPart("lib/assert.js"),
       ContentPart("})(assert);"),
       ContentPart("(function(exports){"),
       PathPart("lib/types.js"),
       ContentPart("})(types);"),
       ContentPart("(function(exports){"),
       PathPart("lib/core.js"),
       ContentPart("})(core);"),
       ContentPart("(function(exports){"),
       PathPart("lib/reporters/browser.js"),
       ContentPart("})(reporter);"),
       ContentPart("nodeunit = core;"),
       ContentPart("nodeunit.assert = assert;"),
       ContentPart("nodeunit.reporter = reporter;"),
       ContentPart("nodeunit.run = reporter.run;"),
       ContentPart("return nodeunit; })();") >>

browserReplacements == <<MarkerBrowser>>

\* runBrowser(): the browser directory, removed when there and made anew.
RunBrowser ==
    /\ pc = "runBrowser"
    /\ fs' = IF browserDir \in dirs THEN RmFiles(fs, browserDir) ELSE fs
    /\ dirs' = MkdirRecursive(IF browserDir \in dirs THEN RmDirs(dirs, browserDir) ELSE dirs,
                              browserDir)
    /\ Log(<<"mkdir " \o browserDir>>)
    /\ Goto("runBrowser.bundle")
    /\ UNCHANGED <<callVars, userArgs, fs0, dirs0, scriptIndex, minified, utilFailed>>

\* runBrowser(): buildAndClean(targetFile, parts, replacements)
RunBrowserBundle ==
    /\ pc = "runBrowser.bundle"
    /\ BuildAndCleanCall(Join(browserDir, "nodeunit.js"), browserParts, browserReplacements)
    /\ Log(<<"buildAndClean " \o Join(browserDir, "nodeunit.js")>>)
    /\ IF asm' = "threw" THEN Uncaught ELSE Goto("runBrowser.css")
    /\ UNCHANGED <<dirs, userArgs, fs0, dirs0, scriptIndex, minified, utilFailed>>

\* runBrowser(): fs.copyFileSync('share/nodeunit.css', ...)
RunBrowserCss ==
    /\ pc = "runBrowser.css"
    /\ Log(<<"copy share/nodeunit.css">>)
    /\ IF CopyThrows(fs, "share/nodeunit.css")
       THEN Uncaught /\ fs' = fs
       ELSE /\ Goto("runBrowser.minify")
            /\ fs' = CopyFile(fs, "share/nodeunit.css", Join(browserDir, "nodeunit.css"))
    /\ UNCHANGED <<dirs, callVars, userArgs, fs0, dirs0, scriptIndex, minified, utilFailed>>

\* How the minification step can go: it works, UglifyJS.minify throws, it
\* returns an error payload, or nodeunit.min.js cannot be written.
MinifyOutcomes == {"ok", "threw", "error", "unwritable"}

\* The catch block of the minification step: log and go on.
MinifyCatchRethrowsMutant(next) == Exit(1)
MinifyCatch(next) == Goto(next)

\* runBrowser(): the try block around UglifyJS.minify
RunBrowserMinify ==
    /\ pc = "runBrowser.minify"
    /\ \E outcome \in MinifyOutcomes :
          /\ minified' = outcome
          /\ IF outcome = "ok"
             THEN /\ fs' = [fs EXCEPT ![Join(browserDir, "nodeunit.min.js")] =
                               File(Minify(fs[Join(browserDir, "nodeunit.js")].data))]
                  /\ Log(<<"minify", "Minification successful.">>)
                  /\ Goto("runBrowser.test")
             ELSE /\ fs' = fs
                  /\ Log(<<"minify", "ERROR during UglifyJS minification">>)
                  /\ MinifyCatch("runBrowser.test")
    /\ UNCHANGED <<dirs, callVars, userArgs, fs0, dirs0, scriptIndex, utilFailed>>

\* runBrowser(): the test directory and test.html
RunBrowserTestDir ==
    /\ pc = "runBrowser.test"
    /\ dirs' = MkdirRecursive(dirs, testDir)
    /\ Log(<<"mkdir " \o testDir, "copy test/test.html">>)
    /\ IF CopyThrows(fs, "test/test.html")
       THEN Uncaught /\ fs' = fs /\ scriptIndex' = scriptIndex
       ELSE /\ Goto("runBrowser.script")
            /\ fs' = CopyFile(fs, "test/test.html", Join(testDir, "test.html"))
            /\ scriptIndex' = 1
    /\ UNCHANGED <<callVars, userArgs, fs0, dirs0, minified, utilFailed>>

\* path.basename(p, ext): the last segment of p, without ext when it ends in
\* ext and is longer than ext.
Basename(p, ext) ==
    LET slashes == { i \in 1..Len(p) : CharAt(p, i) = "/" }
        base == IF slashes = {} THEN p ELSE SubSeq(p, Max(slashes) + 1, Len(p))
    IN  IF /\ Len(base) > Len(ext)
           /\ SubSeq(base, Len(base) - Len(ext) + 1, Len(base)) = ext
        THEN SubSeq(base, 1, Len(base) - Len(ext))
        ELSE base

\* name.replace(/-/g, '_')
ReplaceFirstHyphenMutant(name) ==
    LET at == { i \in 1..Len(name) : CharAt(name, i) = "-" }
    IN  IF at = {} THEN name
        ELSE SubSeq(name, 1, Min(at) - 1) \o "_" \o SubSeq(name, Min(at) + 1, Len(name))
RECURSIVE ReplaceHyphens(_)
ReplaceHyphens(name) ==
    LET at == { i \in 1..Len(name) : CharAt(name, i) = "-" }
    IN  IF at = {} THEN name
        ELSE SubSeq(name, 1, Min(at) - 1) \o "_"
                 \o ReplaceHyphens(SubSeq(name, Min(at) + 1, Len(name)))

\* runBrowser(): the parts of one wrapped test script.
testParts(script) ==
    << ContentPart("(function (exports) {"),
       PathPart("test/" \o script),
       ContentPart("})(this." \o ReplaceHyphens(Basename(script, ".js")) \o " = {});") >>

\* runBrowser(): one round of testScripts.forEach
RunBrowserScript ==
    /\ pc = "runBrowser.script"
    /\ LET script == testScripts[scriptIndex]
       IN  /\ BuildAndCleanCall(Join(testDir, script), testParts(script), browserReplacements)
           /\ Log(<<"buildAndClean " \o Join(testDir, script)>>)
    /\ IF asm' = "threw"
       THEN Uncaught /\ scriptIndex' = scriptIndex
       ELSE IF scriptIndex < Len(testScripts)
       THEN Goto("runBrowser.script") /\ scriptIndex' = scriptIndex + 1
       ELSE Goto("runBrowser.copy") /\ scriptIndex' = scriptIndex
    /\ UNCHANGED <<dirs, userArgs, fs0, dirs0, minified, utilFailed>>

\* runBrowser(): nodeunit.js and nodeunit.css copied into the test directory
RunBrowserCopy ==
    /\ pc = "runBrowser.copy"
    /\ fs' = CopyFile(CopyFile(fs, Join(browserDir, "nodeunit.js"), Join(testDir, "nodeunit.js")),
                      Join(browserDir, "nodeunit.css"), Join(testDir, "nodeunit.css"))
    /\ Log(<<"copy nodeunit.js", "copy nodeunit.css">>)
    /\ Goto("end")
    /\ UNCHANGED <<dirs, callVars, userArgs, fs0, dirs0, scriptIndex, minified, utilFailed>>

\* runCommonJS(): the parts of the CommonJS bundle.
commonjsParts ==
    << ContentPart("var async = require('async');"),
       ContentPart("var assert = {};"),
       ContentPart("var types = {};"),
       ContentPart("var core = {};"),
       ContentPart("var nodeunit = {};"),
       ContentPart("var reporter = {};"),
       ContentPart("(function(exports){"),
       PathPart("lib/assert.js"),
       ContentPart("})(assert);"),
       ContentPart("(function(exports){"),
       PathPart("lib/types.js"),
       ContentPart("})(types);"),
       ContentPart("(function(exports){"),
       PathPart("lib/core.js"),
       ContentPart("})(core);"),
       ContentPart("module.exports = core;"),
       ContentPart("(function(exports, nodeunit){"),
       PathPart("lib/reporters/browser.js"),
       ContentPart("})(reporter, module.exports);"),
       ContentPart("module.exports.assert = assert;"),
       ContentPart("module.exports.reporter = reporter;"),
       ContentPart("module.exports.run = reporter.run;") >>

commonjsReplacements == <<MarkerBrowser, MarkerCommonJS>>

\* runCommonJS(): the directories, and the two dependency files copied
RunCommonJS ==
    /\ pc = "runCommonJS"
    /\ dirs' = MkdirRecursive(IF commonjsDir \in dirs THEN RmDirs(dirs, commonjsDir) ELSE dirs,
                              Join(commonjsDir, "deps"))
    /\ LET f0 == IF commonjsDir \in dirs THEN RmFiles(fs, commonjsDir) ELSE fs
           f1 == CopyFile(f0, "deps/json2.js", Join(commonjsDir, "deps/json2.js"))
           f2 == CopyFile(f1, "deps/async.js", Join(commonjsDir, "deps/async.js"))
       IN  IF CopyThrows(f0, "deps/json2.js")
           THEN fs' = f0 /\ Log(<<"mkdir " \o commonjsDir, "copy deps/json2.js">>) /\ Uncaught
           ELSE IF CopyThrows(f1, "deps/async.js")
           THEN /\ fs' = f1
                /\ Log(<<"mkdir " \o commonjsDir, "copy deps/json2.js", "copy deps/async.js">>)
                /\ Uncaught
           ELSE /\ fs' = f2
                /\ Log(<<"mkdir " \o commonjsDir, "copy deps/json2.js", "copy deps/async.js">>)
                /\ Goto("runCommonJS.bundle")
    /\ UNCHANGED <<callVars, userArgs, fs0, dirs0, scriptIndex, minified, utilFailed>>

\* runCommonJS(): buildAndClean(targetFile, parts, replacements)
RunCommonJSBundle ==
    /\ pc = "runCommonJS.bundle"
    /\ BuildAndCleanCall(Join(commonjsDir, "nodeunit.js"), commonjsParts, commonjsReplacements)
    /\ Log(<<"buildAndClean " \o Join(commonjsDir, "nodeunit.js")>>)
    /\ IF asm' = "threw" THEN Uncaught ELSE Goto("end")
    /\ UNCHANGED <<dirs, userArgs, fs0, dirs0, scriptIndex, minified, utilFailed>>

\* ---------------------------------------------------- the script's runs

\* The most source files that are missing from the working directory.
MaxMissing == 1

\* The argument lists the script is run with.
ArgLists ==
    { <<>>, <<"-h">>, <<"--help">>, <<"-hh">>, <<"-v">>, <<"-hh", "-h">>,
      <<"-h", "build">>, <<"clean", "--help">>, <<"-hh", "browser">>,
      <<"frobnicate">>, <<"Build">>, <<"-x", "clean">>, <<"commonjs", "build">> }
        \cup { <<c>> : c \in Commands }

\* What earlier runs of build, browser and commonjs left behind.
Stale == File("stale")
PriorFiles(prior) ==
    (IF "build" \in prior THEN BuildFiles ELSE {})
        \cup (IF "browser" \in prior THEN BrowserFiles ELSE {})
        \cup (IF "commonjs" \in prior THEN CommonJSFiles ELSE {})
PriorDirs(prior) ==
    (IF prior = {} THEN {} ELSE {BUILDDIR})
        \cup (IF "build" \in prior THEN {Join(BUILDDIR, PACKAGE)} ELSE {})
        \cup (IF "browser" \in prior THEN {browserDir, testDir} ELSE {})
        \cup (IF "commonjs" \in prior THEN {commonjsDir, Join(commonjsDir, "deps")} ELSE {})

Init ==
    /\ \E missing \in { m \in SUBSET SourceFiles : Cardinality(m) <= MaxMissing },
          prior \in {{}, {"build", "browser", "commonjs"}} :
          /\ fs = [p \in AllFiles |->
                     IF p \in SourceFiles
                     THEN (IF p \in missing THEN NoFile ELSE File(SourceText(p)))
                     ELSE IF p \in PriorFiles(prior) THEN Stale ELSE NoFile]
          /\ dirs = PriorDirs(prior) \cup (IF ManPage \in missing THEN {} ELSE {"man1"})
    /\ userArgs \in ArgLists
    /\ pc = "start"
    /\ exitCode = StillRunning
    /\ trace = <<>>
    /\ scriptIndex = 0
    /\ minified = "none"
    /\ utilFailed = <<>>
    /\ fs0 = fs
    /\ dirs0 = dirs
    /\ targetFile = ""
    /\ parts = <<>>
    /\ replacements = <<>>
    /\ content = ""
    /\ ret = Undefined
    /\ asm = "ready"
    /\ outputs = <<>>

\* The argument lists the script is run with again.
RerunArgLists ==
    { <<"build">>, <<"browser">>, <<"commonjs">>, <<"clean">> }

\* The script is started again in the working directory the run before left:
\* the files and directories stay, the process starts from scratch.
Restart ==
    /\ pc = "exited"
    /\ fs0' = fs
    /\ dirs0' = dirs
    /\ userArgs' \in RerunArgLists
    /\ pc' = "start"
    /\ exitCode' = StillRunning
    /\ trace' = <<>>
    /\ scriptIndex' = 0
    /\ minified' = "none"
    /\ utilFailed' = <<>>
    /\ targetFile' = ""
    /\ parts' = <<>>
    /\ replacements' = <<>>
    /\ content' = ""
    /\ ret' = Undefined
    /\ asm' = "ready"
    /\ outputs' = <<>>
    /\ UNCHANGED <<fs, dirs>>

Next ==
    \/ CommandSwitch
    \/ RunClean
    \/ RunBuild
    \/ RunBuildCopy
    \/ RunBuildWrapper
    \/ RunDoc
    \/ RunLint
    \/ RunTest
    \/ RunInstallLibDir
    \/ RunInstallCopy
    \/ RunInstallWrapper
    \/ RunInstallManDir
    \/ RunInstallManPage
    \/ RunUninstall
    \/ RunUninstallManPage
    \/ RunBrowser
    \/ RunBrowserBundle
    \/ RunBrowserCss
    \/ RunBrowserMinify
    \/ RunBrowserTestDir
    \/ RunBrowserScript
    \/ RunBrowserCopy
    \/ RunCommonJS
    \/ RunCommonJSBundle
    \/ EndOfScript
    \/ Restart

Spec == Init /\ [][Next]_vars

\* ---------------------------------------------- claims about the script

\* readFileSync threw inside the last call of buildAndClean.
ReadFailed ==
    /\ asm = "threw"
    /\ \E i \in 1..Len(parts) : PartThrows(fs, parts[i])

\* What the steps of the browser target after the assembly of target write.
WrittenAfter(target) ==
    IF target = Join(browserDir, "nodeunit.js")
    THEN BrowserFiles \ {target}
    ELSE IF \E k \in 1..Len(testScripts) : target = Join(testDir, testScripts[k])
    THEN { Join(testDir, "nodeunit.js"), Join(testDir, "nodeunit.css") }
             \cup { Join(testDir, testScripts[j]) :
                      j \in { i \in 1..Len(testScripts) :
                                \E k \in 1..(i - 1) : target = Join(testDir, testScripts[k]) } }
    ELSE {}

\* C5: when a read fails during an assembly the run is over with status 1,
\* the plan's destination does not exist, the failed call is the last thing
\* the run did, and nothing a later step of the target writes exists.
C5_ReadFailureAborts ==
    ReadFailed =>
        /\ pc = "exited"
        /\ exitCode = 1
        /\ ~fs[targetFile].exists
        /\ trace[Len(trace)] = "buildAndClean " \o targetFile
        /\ \A p \in WrittenAfter(targetFile) : ~fs[p].exists

\* C5's case: lib/core.js is missing and the browser target, run over the
\* artifacts of an earlier browser build, has failed to read it.
C5_Witness ==
    /\ ReadFailed
    /\ targetFile = Join(browserDir, "nodeunit.js")
    /\ ~fs["lib/core.js"].exists
    /\ BUILDDIR \in dirs
    /\ Len(trace) = 2

\* The files the steps after the minification read are all there.
LaterSourcesPresent ==
    /\ fs["test/test.html"].exists
    /\ \A k \in 1..Len(testScripts) : fs["test/" \o testScripts[k]].exists

\* C6: a failed minification leaves the script at the next step, and when
\* the run is over (no later step failing on its own) the status is 0 and
\* test.html, the five wrapped scripts and the two copies are there.
C6_MinifyFailureNotFatal ==
    (minified \in MinifyOutcomes \ {"ok"}) =>
        /\ trace[Len(trace)] = "ERROR during UglifyJS minification"
              => (pc = "runBrowser.test" /\ exitCode = StillRunning)
        /\ (pc = "exited" /\ LaterSourcesPresent) =>
              /\ exitCode = 0
              /\ fs[Join(testDir, "test.html")].exists
              /\ \A k \in 1..Len(testScripts) : fs[Join(testDir, testScripts[k])].exists
              /\ fs[Join(testDir, "nodeunit.js")] = fs[Join(browserDir, "nodeunit.js")]
              /\ fs[Join(testDir, "nodeunit.js")].exists
              /\ fs[Join(testDir, "nodeunit.css")].exists

\* C6's case: the minifier returned an error payload and the run is over.
C6_Witness ==
    /\ minified = "error"
    /\ pc = "exited"
    /\ exitCode = 0
    /\ fs[Join(testDir, "nodeunit.css")].exists
    /\ ~fs[Join(browserDir, "nodeunit.min.js")].exists

\* No help flag is given and the command is absent or not a target.
UsageError ==
    /\ ~Includes(options, "-h")
    /\ ~Includes(options, "--help")
    /\ ~Includes(options, "-hh")
    /\ primaryCommand \notin Commands

\* C7: a usage error ends the process with exit status 1.
C7_UsageErrorExitsOne ==
    (pc = "exited" /\ UsageError) => exitCode = 1

\* The run ended in exec's catch block, right after running command.
StoppedAt(command) ==
    /\ pc = "exited"
    /\ exitCode = 1
    /\ Len(trace) >= 2
    /\ trace[Len(trace) - 1] = "exec " \o command
    /\ trace[Len(trace)] = "ERROR: Command failed."

\* C8 as stated: whenever a utility returned non-zero, the run has stopped
\* right there with status 1.
C8_EveryUtilityFailureFatal ==
    \A i \in 1..Len(utilFailed) : StoppedAt(utilFailed[i])

\* C8 as amended: the same for every command but the copy of the man page,
\* whose failure `|| true` masks: the run goes on and ends with status 0.
C8_ExecFailureFatal ==
    /\ \A i \in 1..Len(utilFailed) :
          utilFailed[i] # ManPageCommand => StoppedAt(utilFailed[i])
    /\ (pc = "exited" /\ utilFailed = <<ManPageCommand>>) => exitCode = 0

\* C8's case: install's cp -a of the module tree failed.
C8_Witness ==
    /\ utilFailed = <<"cp -a dist/nodeunit /usr/local/lib/node">>
    /\ pc = "exited"
    /\ fs["dist/nodeunit.sh"].exists
    /\ ~fs["/usr/local/bin/nodeunit"].exists

\* The identifier each test script's wrapper assigns to.
WrapperIds ==
    <<"test_base", "test_runmodule", "test_runtest", "test_testcase",
      "test_testcase_legacy">>

\* C9: each test script is assembled from the opening line, the script and
\* the closing line naming this.<id>, in that order, into the test directory.
C9_TestScriptsWrapped ==
    \A k \in 1..Len(testScripts) :
        LET script == testScripts[k]
            closing == "})(this." \o WrapperIds[k] \o " = {});"
        IN  /\ (asm = "returned" /\ targetFile = Join(testDir, script)) =>
                  parts = << ContentPart("(function (exports) {"),
                             PathPart("test/" \o script),
                             ContentPart(closing) >>
            /\ (pc \in {"runBrowser.copy", "end", "exited"}
                    /\ fs[Join(testDir, script)].exists
                    /\ fs[Join(testDir, script)] # Stale) =>
                  fs[Join(testDir, script)].data =
                      "(function (exports) {\n" \o SourceText("test/" \o script) \o "\n"
                          \o closing \o "\n"

\* C9's case: the browser target has run to its end and wrapped
\* test-testcase-legacy.js, the script with two hyphens.
C9_Witness ==
    /\ pc = "exited"
    /\ exitCode = 0
    /\ primaryCommand = "browser"
    /\ fs[Join(testDir, "test-testcase-legacy.js")].exists
    /\ fs[Join(testDir, "test-testcase-legacy.js")] # Stale

\* The browser target is past the step that removes and recreates browserDir.
BrowserDirRecreated ==
    /\ primaryCommand = "browser"
    /\ options = <<>>
    /\ pc \notin {"start", "runBrowser"}

HelpRequested ==
    Includes(options, "-h") \/ Includes(options, "--help") \/ Includes(options, "-hh")

\* The clean target has completed.
CleanDone ==
    /\ primaryCommand = "clean"
    /\ ~ HelpRequested
    /\ pc \in {"end", "exited"}

\* C14: after the clean target has completed, whatever the runs before it
\* left, dist and everything under it and stamp-build are gone, and the
\* process exits with status 0; on a tree that was clean when the run
\* started, no file and no directory differs from then.
C14_CleanRemovesBuildArtifacts ==
    CleanDone =>
        /\ \A d \in dirs : d # BUILDDIR /\ ~ Under(d, BUILDDIR)
        /\ \A p \in DOMAIN fs :
              (p = "stamp-build" \/ Under(p, BUILDDIR)) => ~ fs[p].exists
        /\ pc = "exited" => exitCode = 0
        /\ (BUILDDIR \notin dirs0 /\ ~ fs0["stamp-build"].exists) =>
              (fs = fs0 /\ dirs = dirs0)

\* C14's case: clean has run to its end on the tree that a build and a
\* browser run of the script, not only stale files, had left.
C14_Witness ==
    /\ CleanDone
    /\ pc = "exited"
    /\ fs0["stamp-build"].exists
    /\ fs0["stamp-build"] # Stale
    /\ fs0[Join(browserDir, "nodeunit.js")].exists
    /\ fs0[Join(browserDir, "nodeunit.js")] # Stale
    /\ testDir \notin dirs
    /\ testDir \in dirs0

\* -h or --help is among the arguments.
BriefHelpRequested == Includes(options, "-h") \/ Includes(options, "--help")

\* C15: with -h or --help among the arguments the script only prints the
\* brief help: it enters no task and changes no file and no directory, also
\* when a target is given; the flag list is printed exactly by the runs with
\* -hh and neither -h nor --help, which enter no task either; a step of a
\* task is taken only when no help flag is among the arguments.
C15_HelpTakesPrecedence ==
    /\ BriefHelpRequested =>
          /\ pc \in {"start", "end", "exited"}
          /\ pc # "start" => trace = <<"help">>
          /\ fs = fs0 /\ dirs = dirs0
    /\ (Includes(options, "-hh") /\ ~ BriefHelpRequested) =>
          /\ pc \in {"start", "end", "exited"}
          /\ pc # "start" => trace = <<"help", "flags">>
          /\ fs = fs0 /\ dirs = dirs0
    /\ (\E i \in 1..Len(trace) : trace[i] = "flags") =>
          (Includes(options, "-hh") /\ ~ BriefHelpRequested)
    /\ pc \notin {"start", "end", "exited"} => ~ HelpRequested

\* C15's case: --help after the target clean, on a tree a build has left;
\* the run has ended.
C15_Witness ==
    /\ userArgs = <<"clean", "--help">>
    /\ pc = "exited"
    /\ exitCode = 0
    /\ trace = <<"help">>
    /\ fs["stamp-build"].exists
    /\ BUILDDIR \in dirs

\* What a run of the install target does when no command fails, in order.
InstallEvents ==
    << "write stamp-build",
       "mkdir dist/nodeunit",
       "exec cp -R bin deps index.js lib package.json share dist/nodeunit",
       "write dist/nodeunit.sh",
       "exec install -d /usr/local/lib/node",
       "exec cp -a dist/nodeunit /usr/local/lib/node",
       "exec install -m 0755 dist/nodeunit.sh /usr/local/bin/nodeunit",
       "exec install -d /usr/local/share/man/man1/",
       "exec cp -a man1/nodeunit.1 /usr/local/share/man/man1/ || true" >>

\* The position of the first install command in InstallEvents.
FirstInstallEvent ==
    Min({ i \in 1..Len(InstallEvents) : StartsWith(InstallEvents[i], "exec install ") })

\* What the run did so far, without the report of the command that failed.
Done ==
    IF trace # <<>> /\ trace[Len(trace)] = "ERROR: Command failed."
    THEN SubSeq(trace, 1, Len(trace) - 1)
    ELSE trace

\* C16: a run of the install target does, in this order and with nothing in
\* between, the steps of the build and then the five install commands, up to
\* the first command that fails; from the first install command on,
\* stamp-build, the copied tree dist/nodeunit and dist/nodeunit.sh are there,
\* written by this run; a run that ends with status 0 has executed every one.
C16_BuildBeforeInstallInOrder ==
    (primaryCommand = "install" /\ ~ HelpRequested) =>
        /\ Len(Done) <= Len(InstallEvents)
        /\ Done = SubSeq(InstallEvents, 1, Len(Done))
        /\ Len(Done) >= FirstInstallEvent =>
              /\ fs["stamp-build"].exists /\ fs["stamp-build"] # Stale
              /\ Join(BUILDDIR, PACKAGE) \in dirs
              /\ fs["dist/nodeunit/index.js"].exists
              /\ fs["dist/nodeunit/index.js"] # Stale
              /\ fs["dist/nodeunit.sh"].exists /\ fs["dist/nodeunit.sh"] # Stale
        /\ (pc = "exited" /\ exitCode = 0) => trace = InstallEvents

\* C16's case: install has run to its end with status 0 on a tree that held
\* the stale artifacts of an earlier build.
C16_Witness ==
    /\ primaryCommand = "install"
    /\ pc = "exited"
    /\ exitCode = 0
    /\ fs0["dist/nodeunit.sh"] = Stale
    /\ trace = InstallEvents
    /\ fs["/usr/local/bin/nodeunit"] = fs["dist/nodeunit.sh"]

====
